---- MODULE Spec2Model ----
(***************************************************************************)
(* Model of scripts/fix_all_markdown.py: the per-file markdown fixer       *)
(* fix_markdown_file (two line passes followed by four regular-expression  *)
(* substitutions and a write-back decision) and the driver loop main.      *)
(*                                                                         *)
(* Text is a sequence of one-character strings; a line is the text between *)
(* two newline characters.  Every regular expression of the source is      *)
(* modelled by an operator that matches the way Python's re module does    *)
(* (leftmost, greedy, non-overlapping for re.sub).                         *)
(***************************************************************************)
EXTENDS Integers, Sequences, FiniteSets, TLC

VARIABLES
    disk,              \* file -> text stored in the file
    inTarget,          \* file -> TRUE when 'target' is one of the path's parts
    idx,               \* main: number of files the rglob loop has consumed
    pc,                \* position: "loop", "pass1", "pass2", "subs", "decide", "done"
    original_content,  \* fix_markdown_file: the text read
    lines,             \* fix_markdown_file: content.split('\n')
    fixed_lines,       \* fix_markdown_file: output of the header/list pass
    result_lines,      \* fix_markdown_file: output of the fence pass
    content,           \* fix_markdown_file: the text being rewritten
    fixed_count,       \* main: files reported as fixed
    log,               \* history: <<file, outcome>> of every call of fix_markdown_file
    written,           \* history: the files opened for writing
    summary            \* main: the counts printed by the final summary line

vars == <<disk, inTarget, idx, pc, original_content, lines, fixed_lines,
          result_lines, content, fixed_count, log, written, summary>>

locals == <<original_content, lines, fixed_lines, result_lines, content>>

-----------------------------------------------------------------------------
(* Bounds of the model *)

MaxChunks == 4

MaxFiles == 2

-----------------------------------------------------------------------------
(* Characters and character classes of Python's re *)

NL == "\n"

\* the backtick character (the lexer of TLA+ has no backtick inside strings)
BQ == "BACKTICK"

\* \s
IsSpace(c) == c \in {" ", "\n", "\t", "\r"}

Letters ==
    {"a","b","c","d","e","f","g","h","i","j","k","l","m","n","o","p","q","r",
     "s","t","u","v","w","x","y","z","A","B","C","D","E","F","G","H","I","J",
     "K","L","M","N","O","P","Q","R","S","T","U","V","W","X","Y","Z"}

Digits == {"0","1","2","3","4","5","6","7","8","9"}

\* \d
IsDigit(c) == c \in Digits

\* \w
IsWord(c) == c \in Letters \cup Digits \cup {"_"}

\* [^\s\)>\]]
IsURLChar(c) == ~IsSpace(c) /\ c \notin {")", ">", "]"}

\* [\w\.-]
IsEmailChar(c) == IsWord(c) \/ c \in {".", "-"}

-----------------------------------------------------------------------------
(* Sequence helpers *)

Slice(s, a, b) == IF a > b THEN <<>> ELSE SubSeq(s, a, b)

\* s has the characters of w at positions p .. p+Len(w)-1
HasAt(s, p, w) ==
    /\ p >= 1
    /\ p + Len(w) - 1 <= Len(s)
    /\ \A k \in 1..Len(w) : s[p + k - 1] = w[k]

\* the first position >= p that is not in class, a set of positions of s
\* (those of the characters of a character class), or Len(s)+1
RunEnd(s, p, class) ==
    CHOOSE q \in p..(Len(s) + 1) :
        /\ q \notin class
        /\ \A r \in p..(q - 1) : r \in class

\* str.split('\n')
RECURSIVE SplitFrom(_, _, _)
SplitFrom(s, p, cur) ==
    IF p > Len(s) THEN <<cur>>
    ELSE IF s[p] = NL THEN <<cur>> \o SplitFrom(s, p + 1, <<>>)
    ELSE SplitFrom(s, p + 1, Append(cur, s[p]))

Split(s) == SplitFrom(s, 1, <<>>)

\* '\n'.join(ls)
RECURSIVE Join(_)
Join(ls) ==
    IF ls = <<>> THEN <<>>
    ELSE IF Len(ls) = 1 THEN ls[1]
    ELSE ls[1] \o <<NL>> \o Join(Tail(ls))

-----------------------------------------------------------------------------
(* Line classification *)

\* str.strip()
RECURSIVE LStrip(_)
LStrip(l) == IF l # <<>> /\ IsSpace(Head(l)) THEN LStrip(Tail(l)) ELSE l

RECURSIVE RStrip(_)
RStrip(l) ==
    IF l # <<>> /\ IsSpace(l[Len(l)]) THEN RStrip(Slice(l, 1, Len(l) - 1)) ELSE l

Strip(l) == RStrip(LStrip(l))

\* line.strip() != ''
NonBlank(l) == Strip(l) # <<>>

IsHash(c) == c = "#"

\* re.match(r'^#{1,6}\s+', line)
IsHeading(l) ==
    LET n == RunEnd(l, 1, {k \in DOMAIN l : IsHash(l[k])}) - 1
    IN  /\ n >= 1
        /\ n <= 6
        /\ n + 1 <= Len(l)
        /\ IsSpace(l[n + 1])

\* re.match(r'^[\s]*[-*+]\s+', line) or re.match(r'^[\s]*\d+\.\s+', line)
IsListItem(l) ==
    LET p == RunEnd(l, 1, {k \in DOMAIN l : IsSpace(l[k])})
        q == RunEnd(l, p, {k \in DOMAIN l : IsDigit(l[k])})
    IN  \/ /\ p + 1 <= Len(l)
           /\ l[p] \in {"-", "*", "+"}
           /\ IsSpace(l[p + 1])
        \/ /\ q > p
           /\ q + 1 <= Len(l)
           /\ l[q] = "."
           /\ IsSpace(l[q + 1])

Fence == <<BQ, BQ, BQ>>

\* line.strip().startswith(Fence)
IsFence(l) == HasAt(Strip(l), 1, Fence)

-----------------------------------------------------------------------------
(* Pass 1: header and list spacing (MD022, MD032).  The index i is the     *)
(* source's i + 1; acc is fixed_lines.                                     *)

RECURSIVE HeaderListScan(_, _, _)
HeaderListScan(ls, i, acc) ==
    IF i > Len(ls) THEN acc
    ELSE
      LET line == ls[i]
          prev_line == IF i > 1 THEN ls[i - 1] ELSE <<>>
          next_line == IF i < Len(ls) THEN ls[i + 1] ELSE <<>>
      IN
        IF IsHeading(line)
        THEN
          LET a1 == IF i > 1 /\ NonBlank(prev_line) THEN Append(acc, <<>>) ELSE acc
              a2 == Append(a1, line)
          IN  IF i < Len(ls) /\ NonBlank(next_line) /\ ~IsHeading(next_line)
              THEN \* i += 1, the blank line is appended, then i += 1 again
                   LET j == i + 1
                       a3 == IF j <= Len(ls) THEN Append(a2, <<>>) ELSE a2
                   IN  HeaderListScan(ls, j + 1, a3)
              ELSE HeaderListScan(ls, i + 1, a2)
        ELSE IF IsListItem(line)
        THEN
          LET a1 == IF ~IsListItem(prev_line) /\ NonBlank(prev_line)
                    THEN Append(acc, <<>>) ELSE acc
              a2 == Append(a1, line)
          IN  IF ~IsListItem(next_line) /\ NonBlank(next_line)
              THEN \* the line is appended a second time, then the blank line
                   HeaderListScan(ls, i + 1, a2 \o <<line, <<>>>>)
              ELSE HeaderListScan(ls, i + 1, a2)
        ELSE HeaderListScan(ls, i + 1, Append(acc, line))

HeaderListPass(ls) == HeaderListScan(ls, 1, <<>>)

-----------------------------------------------------------------------------
(* Pass 2: fenced code block spacing (MD031) *)

RECURSIVE FenceScan(_, _, _)
FenceScan(ls, i, acc) ==
    IF i > Len(ls) THEN acc
    ELSE
      LET line == ls[i]
          prev_line == IF i > 1 THEN ls[i - 1] ELSE <<>>
          next_line == IF i < Len(ls) THEN ls[i + 1] ELSE <<>>
      IN
        IF IsFence(line)
        THEN
          LET a1 == IF i > 1 /\ NonBlank(prev_line) /\ ~IsFence(prev_line)
                    THEN Append(acc, <<>>) ELSE acc
              a2 == Append(a1, line)
          IN  IF i < Len(ls) /\ NonBlank(next_line) /\ ~IsFence(next_line)
              THEN \* the fence line is appended a second time, then the blank line
                   FenceScan(ls, i + 1, a2 \o <<line, <<>>>>)
              ELSE FenceScan(ls, i + 1, a2)
        ELSE FenceScan(ls, i + 1, Append(acc, line))

FencePass(ls) == FenceScan(ls, 1, <<>>)

-----------------------------------------------------------------------------
(* The four substitutions.  re.sub scans left to right and resumes after   *)
(* the end of each match, so the characters of a match, its closing        *)
(* whitespace included, are not available to the next match.               *)

Http == <<"h", "t", "t", "p">>

ColonSlashSlash == <<":", "/", "/">>

\* (\s)(https?://[^\s\)>\]]+)(\s) matched at p: the position of the closing
\* whitespace, or 0 when there is no match at p
URLMatchEnd(s, p) ==
    IF ~(p <= Len(s) /\ IsSpace(s[p]) /\ HasAt(s, p + 1, Http)) THEN 0
    ELSE
      LET u == IF HasAt(s, p + 5, <<"s">> \o ColonSlashSlash) THEN p + 9
               ELSE IF HasAt(s, p + 5, ColonSlashSlash) THEN p + 8
               ELSE 0
      IN  IF u = 0 \/ u > Len(s) THEN 0
          ELSE LET e == RunEnd(s, u, {k \in DOMAIN s : IsURLChar(s[k])})
               IN  IF e > u /\ e <= Len(s) /\ IsSpace(s[e]) THEN e ELSE 0

RECURSIVE WrapURLsFrom(_, _)
WrapURLsFrom(s, p) ==
    IF p > Len(s) THEN <<>>
    ELSE LET e == URLMatchEnd(s, p)
         IN  IF e > 0
             THEN <<s[p], "<">> \o Slice(s, p + 1, e - 1) \o <<">", s[e]>>
                    \o WrapURLsFrom(s, e + 1)
             ELSE <<s[p]>> \o WrapURLsFrom(s, p + 1)

\* re.sub(r'(\s)(https?://[^\s\)>\]]+)(\s)', r'\1<\2>\3', content)
WrapURLs(s) == WrapURLsFrom(s, 1)

\* (\s)([\w\.-]+@[\w\.-]+\.\w+)(\s) matched at p: the position of the closing
\* whitespace, or 0.  The domain run is maximal, so the final \w+ is what
\* follows its last dot.
EmailMatchEnd(s, p) ==
    IF ~(p < Len(s) /\ IsSpace(s[p])) THEN 0
    ELSE
      LET a == RunEnd(s, p + 1, {k \in DOMAIN s : IsEmailChar(s[k])})
      IN  IF ~(a > p + 1 /\ a < Len(s) /\ s[a] = "@") THEN 0
          ELSE
            LET b == RunEnd(s, a + 1, {k \in DOMAIN s : IsEmailChar(s[k])})
            IN  IF /\ b <= Len(s)
                   /\ IsSpace(s[b])
                   /\ \E d \in (a + 2)..(b - 2) :
                        /\ s[d] = "."
                        /\ \A k \in (d + 1)..(b - 1) : IsWord(s[k])
                THEN b ELSE 0

RECURSIVE WrapEmailsFrom(_, _)
WrapEmailsFrom(s, p) ==
    IF p > Len(s) THEN <<>>
    ELSE LET e == EmailMatchEnd(s, p)
         IN  IF e > 0
             THEN <<s[p], "<">> \o Slice(s, p + 1, e - 1) \o <<">", s[e]>>
                    \o WrapEmailsFrom(s, e + 1)
             ELSE <<s[p]>> \o WrapEmailsFrom(s, p + 1)

\* re.sub(r'(\s)([\w\.-]+@[\w\.-]+\.\w+)(\s)', r'\1<\2>\3', content)
WrapEmails(s) == WrapEmailsFrom(s, 1)

IsNL(c) == c = NL

RECURSIVE CollapseFrom(_, _)
CollapseFrom(s, p) ==
    IF p > Len(s) THEN <<>>
    ELSE IF s[p] = NL
    THEN LET e == RunEnd(s, p, {k \in DOMAIN s : IsNL(s[k])})
         IN  IF e - p >= 3
             THEN <<NL, NL>> \o CollapseFrom(s, e)
             ELSE Slice(s, p, e - 1) \o CollapseFrom(s, e)
    ELSE <<s[p]>> \o CollapseFrom(s, p + 1)

\* a variant that matches exactly three newlines: r'\n\n\n' for r'\n\n\n+'
RECURSIVE CollapseThreeFrom(_, _)
CollapseThreeFrom(s, p) ==
    IF p > Len(s) THEN <<>>
    ELSE IF HasAt(s, p, <<NL, NL, NL>>)
    THEN <<NL, NL>> \o CollapseThreeFrom(s, p + 3)
    ELSE <<s[p]>> \o CollapseThreeFrom(s, p + 1)

CollapseBlankThree(s) == CollapseThreeFrom(s, 1)

\* re.sub(r'\n\n\n+', '\n\n', content)
CollapseBlank(s) == CollapseFrom(s, 1)

BareFenceLine == <<NL>> \o Fence \o <<NL>>

TaggedFenceLine == <<NL>> \o Fence \o <<"b", "a", "s", "h", NL>>

RECURSIVE TagFrom(_, _)
TagFrom(s, p) ==
    IF p > Len(s) THEN <<>>
    ELSE IF HasAt(s, p, BareFenceLine)
    THEN TaggedFenceLine \o TagFrom(s, p + Len(BareFenceLine))
    ELSE <<s[p]>> \o TagFrom(s, p + 1)

\* re.sub(r'\n(fence)\n', r'\n(fence)bash\n', content)
TagFences(s) == TagFrom(s, 1)

\* the four substitutions in the order of the source
Substitutions(s) == TagFences(CollapseBlank(WrapEmails(WrapURLs(s))))

\* the text fix_markdown_file computes from the text it read
Transform(text) == Substitutions(Join(FencePass(HeaderListPass(Split(text)))))

\* a variant that takes every text as changed
ChangedAlways(c, o) == TRUE

\* content != original_content
Changed(c, o) == c # o

-----------------------------------------------------------------------------
(* Input documents: newline-joined sequences of chunks *)

Vocab ==
    { <<>>,
      <<NL, NL>>,
      <<"T">>,
      <<"#", " ", "H">>,
      <<"-", " ", "i">>,
      <<"1", ".", " ", "x">>,
      Fence,
      Fence \o <<"s", "h">>,
      Http \o ColonSlashSlash \o <<"a", " ">> \o Http \o ColonSlashSlash \o <<"b">>,
      <<"a", "@", "b", ".", "c">> }

RECURSIVE ChunkSeqs(_)
ChunkSeqs(n) ==
    IF n = 0 THEN {<<>>}
    ELSE LET shorter == ChunkSeqs(n - 1)
         IN  shorter \cup {Append(cs, c) : cs \in {x \in shorter : Len(x) = n - 1}, c \in Vocab}

Docs == {Join(cs) : cs \in ChunkSeqs(MaxChunks)}

\* the documents of the runs over several files
MainDocs ==
    {Join(cs) : cs \in { <<<<"T">>>>,
                         <<<<"-", " ", "i">>, <<"T">>>>,
                         <<<<"#", " ", "H">>, <<>>, <<"T">>>> }}

-----------------------------------------------------------------------------
(* The state machine: main iterates over the markdown files in traversal   *)
(* order (file 1, 2, ...); fix_markdown_file runs on the file idx + 1.     *)

Files == DOMAIN disk

cur == idx + 1

Init ==
    /\ \E n \in 0..MaxFiles :
         /\ disk \in [1..n -> IF n = 1 THEN Docs ELSE MainDocs]
         /\ inTarget \in [1..n -> BOOLEAN]
    /\ idx = 0
    /\ pc = "loop"
    /\ original_content = <<>>
    /\ lines = <<>>
    /\ fixed_lines = <<>>
    /\ result_lines = <<>>
    /\ content = <<>>
    /\ fixed_count = 0
    /\ log = <<>>
    /\ written = {}
    /\ summary = <<>>

\* a variant of the handler that counts the failed file as fixed
MainExceptCounts ==
    /\ log' = Append(log, <<cur, "Error">>)
    /\ fixed_count' = fixed_count + 1
    /\ idx' = idx + 1
    /\ pc' = "loop"
    /\ UNCHANGED <<inTarget, summary>>

\* except Exception as e: the error is printed and the loop goes on
MainExcept ==
    /\ log' = Append(log, <<cur, "Error">>)
    /\ idx' = idx + 1
    /\ pc' = "loop"
    /\ UNCHANGED <<fixed_count, inTarget, summary>>

\* if 'target' in md_file.parts: continue
SkipTarget ==
    /\ pc = "loop"
    /\ cur \in Files
    /\ inTarget[cur]
    /\ idx' = idx + 1
    /\ UNCHANGED <<disk, inTarget, pc, locals, fixed_count, log, written, summary>>

\* open(filepath, 'r'), f.read(), content.split
Read ==
    /\ pc = "loop"
    /\ cur \in Files
    /\ ~inTarget[cur]
    /\ original_content' = disk[cur]
    /\ content' = disk[cur]
    /\ lines' = Split(disk[cur])
    /\ fixed_lines' = <<>>
    /\ result_lines' = <<>>
    /\ pc' = "pass1"
    /\ UNCHANGED <<disk, inTarget, idx, fixed_count, log, written, summary>>

\* the open or the read raises
ReadFails ==
    /\ pc = "loop"
    /\ cur \in Files
    /\ ~inTarget[cur]
    /\ MainExcept
    /\ UNCHANGED <<disk, locals, written>>

\* the while loop of the header/list pass
HeaderList ==
    /\ pc = "pass1"
    /\ fixed_lines' = HeaderListPass(lines)
    /\ pc' = "pass2"
    /\ UNCHANGED <<disk, inTarget, idx, original_content, lines, result_lines,
                   content, fixed_count, log, written, summary>>

\* the for loop of the fence pass and the join
Fences ==
    /\ pc = "pass2"
    /\ result_lines' = FencePass(fixed_lines)
    /\ content' = Join(FencePass(fixed_lines))
    /\ pc' = "subs"
    /\ UNCHANGED <<disk, inTarget, idx, original_content, lines, fixed_lines,
                   fixed_count, log, written, summary>>

\* the four re.sub calls
Substitute ==
    /\ pc = "subs"
    /\ content' = Substitutions(content)
    /\ pc' = "decide"
    /\ UNCHANGED <<disk, inTarget, idx, original_content, lines, fixed_lines,
                   result_lines, fixed_count, log, written, summary>>

\* content differs: the file is written, True is returned, main counts it
WriteBack ==
    /\ pc = "decide"
    /\ Changed(content, original_content)
    /\ disk' = [disk EXCEPT ![cur] = content]
    /\ written' = written \cup {cur}
    /\ log' = Append(log, <<cur, "Fixed">>)
    /\ fixed_count' = fixed_count + 1
    /\ idx' = idx + 1
    /\ pc' = "loop"
    /\ UNCHANGED <<inTarget, locals, summary>>

\* content differs and the open for writing or the write raises: the file
\* is left as it was (open failed) or truncated (write failed)
WriteFails ==
    /\ pc = "decide"
    /\ Changed(content, original_content)
    /\ \E left \in {disk[cur], <<>>} : disk' = [disk EXCEPT ![cur] = left]
    /\ written' = written \cup {cur}
    /\ MainExcept
    /\ UNCHANGED locals

\* content is the original: return False
ReturnFalse ==
    /\ pc = "decide"
    /\ ~Changed(content, original_content)
    /\ log' = Append(log, <<cur, "Unchanged">>)
    /\ idx' = idx + 1
    /\ pc' = "loop"
    /\ UNCHANGED <<disk, inTarget, locals, fixed_count, written, summary>>

\* the loop is exhausted: print the total
Summary ==
    /\ pc = "loop"
    /\ cur \notin Files
    /\ summary' = <<fixed_count>>
    /\ pc' = "done"
    /\ UNCHANGED <<disk, inTarget, idx, locals, fixed_count, log, written>>

Next ==
    \/ SkipTarget
    \/ Read
    \/ ReadFails
    \/ HeaderList
    \/ Fences
    \/ Substitute
    \/ WriteBack
    \/ WriteFails
    \/ ReturnFalse
    \/ Summary

Spec == Init /\ [][Next]_vars

-----------------------------------------------------------------------------
(* Vocabulary of the properties *)

Blank(l) == ~NonBlank(l)

Last(q) == q[Len(q)]

\* the non-blank lines, in order
ContentLines(ls) == SelectSeq(ls, NonBlank)

\* the number of positions of ls that hold the line l
Count(ls, l) == Cardinality({k \in 1..Len(ls) : ls[k] = l})

NotAngle(c) == c \notin {"<", ">"}

\* out is the line l itself, l with angle brackets added, or the bare fence
\* l with the language tag added
SameLine(l, out) ==
    \/ out = l
    \/ SelectSeq(out, NotAngle) = SelectSeq(l, NotAngle)
    \/ l = Fence /\ out = Fence \o <<"b", "a", "s", "h">>

\* out is ls with blank lines inserted and nothing else
RECURSIVE BlankInsertion(_, _)
BlankInsertion(ls, out) ==
    IF out = <<>> THEN ls = <<>>
    ELSE \/ ls # <<>> /\ Head(out) = Head(ls) /\ BlankInsertion(Tail(ls), Tail(out))
         \/ Head(out) = <<>> /\ BlankInsertion(ls, Tail(out))

\* the positions of s where w occurs (overlapping occurrences included)
Occurrences(s, w) == {p \in 1..Len(s) : HasAt(s, p, w)}

\* the positions of s where a run of n newline characters starts
HasNLRun(s, n) == \E p \in 1..Len(s) : HasAt(s, p, [k \in 1..n |-> NL])

\* the positions of s that open a whitespace-delimited http(s) URL
URLSites(s) == {p \in 1..Len(s) : URLMatchEnd(s, p) > 0}

WrappedURLs(s) ==
    Occurrences(s, <<"<">> \o Http \o ColonSlashSlash)
      \cup Occurrences(s, <<"<">> \o Http \o <<"s">> \o ColonSlashSlash)

\* at most two fences open and close blocks one inside the other never
NoNestedFences(ls) == Cardinality({k \in 1..Len(ls) : IsFence(ls[k])}) <= 2

\* the text between the fence pass and the substitutions
Joined == Join(result_lines)

\* the text the language tagging is applied to
BeforeTagging == CollapseBlank(WrapEmails(WrapURLs(Joined)))

-----------------------------------------------------------------------------
(* C1: for a document without nested code fences the output has the same   *)
(* non-blank lines as the input, in the same order and multiplicity; only  *)
(* angle brackets and the fence tag may differ.                            *)
C1_NoDataLoss ==
    (pc = "decide" /\ NoNestedFences(lines)) =>
        LET x == ContentLines(lines)
            y == ContentLines(Split(content))
        IN  /\ Len(x) = Len(y)
            /\ \A k \in 1..Len(x) : SameLine(x[k], y[k])

(* C2: a heading whose next line exists, is non-blank and is no heading is *)
(* emitted followed by one blank line and then by that next line.          *)
C2_HeadingThenBlankThenNext ==
    pc = "pass2" =>
        \A i \in 1..(Len(lines) - 1) :
            (IsHeading(lines[i]) /\ NonBlank(lines[i + 1]) /\ ~IsHeading(lines[i + 1]))
            => \E k \in 1..(Len(fixed_lines) - 2) :
                   /\ fixed_lines[k] = lines[i]
                   /\ fixed_lines[k + 1] = <<>>
                   /\ fixed_lines[k + 2] = lines[i + 1]

(* C3: the header/list pass emits every list item exactly once, with a     *)
(* blank line before the first item of a run whose previous line is        *)
(* non-blank and no list item, and a blank line after the last item of a   *)
(* run whose next line is non-blank and no list item.                      *)
C3_ListItemsOnce ==
    pc = "pass2" =>
        /\ \A i \in 1..Len(lines) :
               IsListItem(lines[i]) => Count(fixed_lines, lines[i]) = Count(lines, lines[i])
        /\ \A i \in 2..Len(lines) :
               (IsListItem(lines[i]) /\ NonBlank(lines[i - 1]) /\ ~IsListItem(lines[i - 1]))
               => \E k \in 1..(Len(fixed_lines) - 1) :
                      fixed_lines[k] = <<>> /\ fixed_lines[k + 1] = lines[i]
        /\ \A i \in 1..(Len(lines) - 1) :
               (IsListItem(lines[i]) /\ NonBlank(lines[i + 1]) /\ ~IsListItem(lines[i + 1]))
               => \E k \in 1..(Len(fixed_lines) - 1) :
                      fixed_lines[k] = lines[i] /\ fixed_lines[k + 1] = <<>>

(* C4: the transformation is idempotent: applied to its own output it      *)
(* returns that output.                                                    *)
C4_Idempotent ==
    pc = "decide" => Transform(content) = content

(* C5: every http(s) URL of the text with a whitespace character before    *)
(* and after it is wrapped in angle brackets in the output.                *)
C5_EveryURLWrapped ==
    pc = "decide" =>
        Cardinality(WrappedURLs(content)) - Cardinality(WrappedURLs(Joined))
            = Cardinality(URLSites(Joined))

(* C6: every untagged fence line between two newlines of the text after    *)
(* the spacing passes carries the language tag in the output.              *)
C6_EveryBareFenceTagged ==
    pc = "decide" =>
        Cardinality(Occurrences(content, TaggedFenceLine))
          - Cardinality(Occurrences(BeforeTagging, TaggedFenceLine))
            = Cardinality(Occurrences(BeforeTagging, BareFenceLine))

(* C7: the final text has no run of three or more newline characters, and  *)
(* a run of four newlines of the input is a run of two in the output.      *)
C7_NoTripleNewline ==
    pc = "decide" =>
        /\ ~HasNLRun(content, 3)
        /\ HasNLRun(original_content, 4) => HasNLRun(content, 2)

C7_Witness ==
    /\ pc = "decide"
    /\ HasNLRun(original_content, 4)
    /\ ~HasNLRun(original_content, 5)
    /\ Len(fixed_lines) >= Len(lines) + 2
    /\ HasNLRun(content, 2)

(* C10: the fence pass only inserts blank lines; a fence line whose        *)
(* previous line is non-blank and no fence has a blank line right before   *)
(* it, one whose next line is non-blank and no fence has a blank line      *)
(* right after it.                                                         *)
C10_FencePassInsertsBlanksOnly ==
    pc = "subs" =>
        /\ BlankInsertion(fixed_lines, result_lines)
        /\ \A i \in 2..Len(fixed_lines) :
               (IsFence(fixed_lines[i]) /\ NonBlank(fixed_lines[i - 1])
                  /\ ~IsFence(fixed_lines[i - 1]))
               => \E k \in 1..(Len(result_lines) - 1) :
                      result_lines[k] = <<>> /\ result_lines[k + 1] = fixed_lines[i]
        /\ \A i \in 1..(Len(fixed_lines) - 1) :
               (IsFence(fixed_lines[i]) /\ NonBlank(fixed_lines[i + 1])
                  /\ ~IsFence(fixed_lines[i + 1]))
               => \E k \in 1..(Len(result_lines) - 1) :
                      result_lines[k] = fixed_lines[i] /\ result_lines[k + 1] = <<>>

-----------------------------------------------------------------------------
(* Write-back and the driver loop *)

\* the text already satisfies every rule: blank lines (or the ends of the
\* file) around every heading, list run and fence line, no bare URL or
\* e-mail address, no two consecutive blank lines, a language on every fence
Compliant(text) ==
    LET ls == Split(text)
        n == Len(ls)
    IN  /\ \A i \in 1..n :
               IsHeading(ls[i]) =>
                   /\ i = 1 \/ Blank(ls[i - 1])
                   /\ i = n \/ Blank(ls[i + 1])
        /\ \A i \in 1..n :
               IsListItem(ls[i]) =>
                   /\ i = 1 \/ Blank(ls[i - 1]) \/ IsListItem(ls[i - 1])
                   /\ i = n \/ Blank(ls[i + 1]) \/ IsListItem(ls[i + 1])
        /\ \A i \in 1..n :
               IsFence(ls[i]) =>
                   /\ i = 1 \/ Blank(ls[i - 1]) \/ IsFence(ls[i - 1])
                   /\ i = n \/ Blank(ls[i + 1]) \/ IsFence(ls[i + 1])
                   /\ Strip(ls[i]) # Fence
        /\ \A i \in 1..(n - 1) : ~(Blank(ls[i]) /\ Blank(ls[i + 1]))
        /\ \A p \in 1..Len(text) : URLMatchEnd(text, p) = 0 /\ EmailMatchEnd(text, p) = 0

\* a call of fix_markdown_file has returned or raised and main is back in
\* its loop; the locals are those of that call unless the read raised
Returned == pc \in {"loop", "done"} /\ log # <<>>

RECURSIVE SelectedUpTo(_)
SelectedUpTo(n) ==
    IF n = 0 THEN <<>>
    ELSE IF inTarget[n] THEN SelectedUpTo(n - 1)
    ELSE Append(SelectedUpTo(n - 1), n)

Attempted == [k \in 1..Len(log) |-> log[k][1]]

NumFixed == Cardinality({k \in 1..Len(log) : log[k][2] = "Fixed"})

(* C9: whatever reads and writes fail, every selected file is attempted    *)
(* exactly once in traversal order, the run reaches the summary, and the   *)
(* summary is the number of files for which True was returned.  The run    *)
(* can stop only at the summary: in the loop and at the write-back         *)
(* decision a step is always possible, and the steps in between (the two   *)
(* passes and the substitutions) are guarded by the position alone.        *)
C9_ErrorIsolation ==
    /\ pc \in {"loop", "done"} => Attempted = SelectedUpTo(idx)
    /\ pc \in {"loop", "done"} => fixed_count = NumFixed
    /\ pc = "done" => idx = Cardinality(Files) /\ summary = <<NumFixed>>
    /\ pc # "done" => summary = <<>>
    /\ pc = "loop" => ENABLED (SkipTarget \/ Read \/ ReadFails \/ Summary)
    /\ pc = "decide" => ENABLED (WriteBack \/ WriteFails \/ ReturnFalse)

C9_Witness ==
    /\ pc = "done"
    /\ \E j, k \in 1..Len(log) : j < k /\ log[j][2] = "Error" /\ log[k][2] = "Fixed"
    /\ summary = <<1>>

====
